---- MODULE Spec2Model ----
(***************************************************************************)
(* Model of the coupon engine of coupon-management-rest.                   *)
(*                                                                         *)
(* CouponService (src/src/services/couponService.js, the first class       *)
(* definition, lines 1-389) and the coupon document's methods              *)
(* (src/src/controllers/couponController.js, lines 295-309) are written    *)
(* as operators; one action per service method applies it to a coupon, a   *)
(* cart and a clock value drawn from bounded sets.                         *)
(*                                                                         *)
(* Specifications.  Spec: the service methods on validated carts.          *)
(* DirectSpec: the same methods on an absent cart or a cart without an     *)
(* items list.  ListSpec: getApplicableCoupons over a collection of        *)
(* stored coupons.  ApplySpec: the controller's applyCoupon handler run    *)
(* by concurrent requests, one step per await.  CrudSpec: the controller's *)
(* createCoupon, getCouponById, updateCoupon and deleteCoupon handlers run *)
(* by concurrent requests, one step per await.                             *)
(*                                                                         *)
(* Conventions.  A JavaScript value that may be undefined is a sequence:   *)
(* Undefined == <<>> and a present value v is <<v>>.  A message is a tuple *)
(* of its text pieces and interpolated values, so that string              *)
(* concatenation is \o.  Prices are whole multiples of 100, which makes    *)
(* x * v / 100 exact in the integers.                                      *)
(***************************************************************************)
EXTENDS Integers, Sequences, FiniteSets, TLC

VARIABLES coupon, cart, now, op, ret, store, reqs

vars == <<coupon, cart, now, op, ret, store, reqs>>

(***************************************************************************)
(* Bounds of the explored inputs.                                          *)
(***************************************************************************)
MaxProduct == 3
MaxQty == 2
MaxItems == 2
MaxReqs == 2
MaxReqQty == 2
MaxRepetition == 2
MaxTime == 2
MaxUsage == 1

(***************************************************************************)
(* Literals of the code.                                                   *)
(***************************************************************************)
PercentBase == 100
FixedThreshold == 100

Undefined == <<>>

Some(v) == <<v>>

IsDefined(x) == x # Undefined

\* JavaScript truthiness of an optional number: undefined and 0 are falsy.
Truthy(x) == x # Undefined /\ x[1] # 0

Min(a, b) == IF a <= b THEN a ELSE b

(***************************************************************************)
(* Input domains.                                                          *)
(***************************************************************************)
ProductIds == 1..MaxProduct

\* cartSchema: productId, quantity positive integers, price positive.
Items ==
    {[productId |-> p, quantity |-> q, price |-> PercentBase * p] :
        p \in ProductIds, q \in 1..MaxQty}

Carts ==
    {[items |-> s] : s \in UNION {[1..n -> Items] : n \in 1..MaxItems}}

DiscountValues == {50, 100, 150}

MinCartValues == {0, 300}

MaxDiscounts == {Undefined, Some(0), Some(150)}

ExpirationDates == {Undefined, Some(1)}

UsageLimits == {Undefined} \cup {Some(n) : n \in 1..MaxUsage}

\* buyGetProductSchema
ProductReqs == [productId : ProductIds, quantity : 1..MaxReqQty]

ReqIds(list) == {list[i].productId : i \in DOMAIN list}

\* bxgySchema: product ids are unique within a list
ReqLists ==
    {s \in UNION {[1..n -> ProductReqs] : n \in 1..MaxReqs} :
        Cardinality(ReqIds(s)) = Len(s)}

\* The fields every coupon has, with the values the schemas default to.
BaseCoupon ==
    [id |-> 1, code |-> "COUPON", type |-> "CART_WISE", discountValue |-> 50,
     discountType |-> "undefined", minCartValue |-> 0,
     maxDiscount |-> Undefined, applicableProducts |-> {},
     buyProducts |-> <<>>, getProducts |-> <<>>, repetitionLimit |-> 1,
     expirationDate |-> Undefined, isActive |-> TRUE,
     usageLimit |-> Undefined, currentUsage |-> 0]

\* cartWiseSchema: discountValue in 1..100, PERCENTAGE, no product lists
CartWiseCoupons ==
    {[BaseCoupon EXCEPT !.code = "SAVE10", !.type = "CART_WISE",
                        !.discountValue = v, !.discountType = "PERCENTAGE",
                        !.maxDiscount = m, !.minCartValue = mv] :
        v \in {d \in DiscountValues : d <= 100}, m \in MaxDiscounts,
        mv \in MinCartValues}

\* productWiseSchema: discountType required, a PERCENTAGE is at most 100,
\* applicableProducts non-empty
ProductWiseCoupons ==
    {[BaseCoupon EXCEPT !.code = "PROD20", !.type = "PRODUCT_WISE",
                        !.discountValue = vt[1], !.discountType = vt[2],
                        !.maxDiscount = m, !.applicableProducts = ps,
                        !.minCartValue = mv] :
        vt \in {x \in DiscountValues \X {"PERCENTAGE", "FIXED_AMOUNT"} :
                   x[2] = "PERCENTAGE" => x[1] <= 100},
        m \in MaxDiscounts,
        ps \in (SUBSET ProductIds) \ {{}},
        mv \in MinCartValues}

\* bxgySchema: both lists non-empty, ids unique in each, lists disjoint
BxGyCoupons ==
    {[BaseCoupon EXCEPT !.code = "BUY2GET1", !.type = "BXGY",
                        !.discountValue = 0,
                        !.buyProducts = bg[1], !.getProducts = bg[2],
                        !.repetitionLimit = r, !.minCartValue = mv] :
        bg \in {x \in ReqLists \X ReqLists :
                   ReqIds(x[1]) \cap ReqIds(x[2]) = {}},
        r \in 1..MaxRepetition,
        mv \in MinCartValues}

\* One representative coupon of each type, on which the fields that
\* isApplicable reads (activity, expiry, usage) vary.
GateBases ==
    {c \in CartWiseCoupons :
        c.discountValue = 50 /\ c.maxDiscount = Some(150) /\ c.minCartValue = 0}
    \cup {c \in ProductWiseCoupons :
             /\ c.discountValue = 50 /\ c.discountType = "PERCENTAGE"
             /\ c.maxDiscount = Undefined /\ c.applicableProducts = {1, 2}
             /\ c.minCartValue = 0}
    \cup {c \in BxGyCoupons :
             /\ c.buyProducts = <<[productId |-> 1, quantity |-> 1]>>
             /\ c.getProducts = <<[productId |-> 2, quantity |-> 1]>>
             /\ c.repetitionLimit = 1 /\ c.minCartValue = 0}

GatedCoupons ==
    {[c EXCEPT !.isActive = a, !.expirationDate = e, !.usageLimit = l,
               !.currentUsage = u, !.minCartValue = mv] :
        c \in GateBases, a \in BOOLEAN, e \in ExpirationDates,
        l \in UsageLimits, u \in 0..MaxUsage, mv \in MinCartValues}

\* updateCoupon checks a body against the schema of the body's type with
\* every key optional, and assigns it over the stored document: a stored
\* CART_WISE coupon updated with { type: 'PRODUCT_WISE' } is a PRODUCT_WISE
\* coupon whose applicableProducts is the empty list.
RetypedCoupons ==
    {[c EXCEPT !.code = "RETYPED", !.type = "PRODUCT_WISE"] :
        c \in CartWiseCoupons}

Coupons ==
    CartWiseCoupons \cup ProductWiseCoupons \cup BxGyCoupons \cup GatedCoupons
    \cup RetypedCoupons

(***************************************************************************)
(* The coupon document's methods.                                          *)
(***************************************************************************)
\* Variant: the coupon counts as expired at its expirationDate already.
isExpired_AtDate(c, t) ==
    IF ~IsDefined(c.expirationDate) THEN FALSE
    ELSE t >= c.expirationDate[1]

isExpired(c, t) ==
    IF ~IsDefined(c.expirationDate) THEN FALSE
    ELSE t > c.expirationDate[1]

isUsageLimitReached(c) ==
    IF ~Truthy(c.usageLimit) THEN FALSE
    ELSE c.currentUsage >= c.usageLimit[1]

isApplicable(c, t) ==
    c.isActive /\ ~isExpired(c, t) /\ ~isUsageLimitReached(c)

(***************************************************************************)
(* CouponService: applicability.                                           *)
(***************************************************************************)
\* The shape of an applicability result; absent fields are Undefined.
\* raised is set when the method raised instead of returning.
NoApplicability ==
    [applicable |-> FALSE, reason |-> Undefined, cartTotal |-> Undefined,
     applicableItems |-> Undefined, applicableTotal |-> Undefined,
     maxApplications |-> Undefined, cartProducts |-> Undefined,
     raised |-> Undefined]

Inapplicable(reason) == [NoApplicability EXCEPT !.reason = reason]

\* cart.items can be read: the cart is there and has an items list.
HasItems(crt) == crt # Undefined /\ "items" \in DOMAIN crt

\* cart.items.filter / cart.items.forEach on a cart that is absent or has
\* no items list raises a TypeError.
TypeError == [NoApplicability EXCEPT !.raised = <<"TypeError">>]

RECURSIVE SumSubtotals(_)
SumSubtotals(items) ==
    IF items = <<>> THEN 0
    ELSE SumSubtotals(SubSeq(items, 1, Len(items) - 1))
         + items[Len(items)].price * items[Len(items)].quantity

\* An absent cart is Undefined; a cart without an items list is a record
\* without the field (an array, even an empty one, is truthy).
calculateCartTotal(c) ==
    IF c = Undefined \/ "items" \notin DOMAIN c THEN 0
    ELSE SumSubtotals(c.items)

checkCartWiseApplicability(c, crt, cartTotal) ==
    [NoApplicability EXCEPT !.applicable = TRUE, !.cartTotal = Some(cartTotal)]

\* Variant: once a product matches, the whole cart counts as applicable.
checkProductWiseApplicability_WholeCart(c, crt) ==
    IF c.applicableProducts = {}
    THEN Inapplicable(<<"No applicable products defined">>)
    ELSE IF ~HasItems(crt) THEN TypeError
    ELSE IF \A i \in DOMAIN crt.items :
                crt.items[i].productId \notin c.applicableProducts
         THEN Inapplicable(<<"No applicable products in cart">>)
         ELSE [NoApplicability EXCEPT
                  !.applicable = TRUE,
                  !.applicableItems = Some(crt.items),
                  !.applicableTotal = Some(SumSubtotals(crt.items))]

checkProductWiseApplicability(c, crt) ==
    IF c.applicableProducts = {}
    THEN Inapplicable(<<"No applicable products defined">>)
    ELSE IF ~HasItems(crt) THEN TypeError
    ELSE LET applicableItems ==
                 SelectSeq(crt.items,
                           LAMBDA item : item.productId \in c.applicableProducts)
         IN  IF Len(applicableItems) = 0
             THEN Inapplicable(<<"No applicable products in cart">>)
             ELSE [NoApplicability EXCEPT
                      !.applicable = TRUE,
                      !.applicableItems = Some(applicableItems),
                      !.applicableTotal = Some(SumSubtotals(applicableItems))]

\* cartProducts[item.productId] = item.quantity, for each item in turn: the
\* last line item of a product decides the entry.
CartProducts(items) ==
    [p \in {items[i].productId : i \in DOMAIN items} |->
        LET last == CHOOSE i \in DOMAIN items :
                        /\ items[i].productId = p
                        /\ \A j \in DOMAIN items :
                               items[j].productId = p => j <= i
        IN  items[last].quantity]

\* cartProducts[id] || 0
CartQuantity(cartProducts, id) ==
    IF id \in DOMAIN cartProducts THEN cartProducts[id] ELSE 0

\* One pass of the loop over coupon.buyProducts.
BuyStep(maxApplications, possibleApplications) ==
    IF maxApplications = 0 \/ possibleApplications < maxApplications
    THEN possibleApplications
    ELSE maxApplications

RECURSIVE BuyLoop(_, _, _, _)
BuyLoop(buyProducts, cartProducts, i, maxApplications) ==
    IF i > Len(buyProducts) THEN maxApplications
    ELSE LET cartQuantity == CartQuantity(cartProducts, buyProducts[i].productId)
             possibleApplications == cartQuantity \div buyProducts[i].quantity
         IN  BuyLoop(buyProducts, cartProducts, i + 1,
                     BuyStep(maxApplications, possibleApplications))

checkBxGyApplicability(c, crt) ==
    IF Len(c.buyProducts) = 0 \/ Len(c.getProducts) = 0
    THEN Inapplicable(<<"Invalid BxGy configuration">>)
    ELSE IF ~HasItems(crt) THEN TypeError
    ELSE LET cartProducts == CartProducts(crt.items)
             repetitionLimit ==
                 IF c.repetitionLimit = 0 THEN 1 ELSE c.repetitionLimit
             maxApplications ==
                 Min(BuyLoop(c.buyProducts, cartProducts, 1, 0), repetitionLimit)
         IN  IF maxApplications = 0
             THEN Inapplicable(<<"Insufficient quantity of buy products">>)
             ELSE [NoApplicability EXCEPT
                      !.applicable = TRUE,
                      !.maxApplications = Some(maxApplications),
                      !.cartProducts = Some(cartProducts)]

\* Variant: a cart total equal to the minimum is rejected too.
BelowMinimum_Inclusive(c, cartTotal) ==
    c.minCartValue # 0 /\ cartTotal <= c.minCartValue

\* coupon.minCartValue && cartTotal < coupon.minCartValue
BelowMinimum(c, cartTotal) ==
    c.minCartValue # 0 /\ cartTotal < c.minCartValue

isCouponApplicable(c, crt, t) ==
    IF ~isApplicable(c, t)
    THEN Inapplicable(<<"Coupon is not active, expired, or usage limit reached">>)
    ELSE LET cartTotal == calculateCartTotal(crt)
         IN  IF BelowMinimum(c, cartTotal)
             THEN Inapplicable(<<"Cart total (", cartTotal,
                                 ") is less than minimum required (",
                                 c.minCartValue, ")">>)
             ELSE CASE c.type = "CART_WISE" ->
                           checkCartWiseApplicability(c, crt, cartTotal)
                    [] c.type = "PRODUCT_WISE" ->
                           checkProductWiseApplicability(c, crt)
                    [] c.type = "BXGY" ->
                           checkBxGyApplicability(c, crt)
                    [] OTHER -> Inapplicable(<<"Unknown coupon type">>)

(***************************************************************************)
(* CouponService: discount calculation.                                    *)
(***************************************************************************)
\* The shape of a discount result; absent fields are Undefined.
NoDiscount ==
    [discount |-> 0, applicable |-> Undefined, reason |-> Undefined,
     raised |-> Undefined,
     cartTotal |-> Undefined, applicableTotal |-> Undefined,
     itemDiscounts |-> Undefined, maxApplications |-> Undefined,
     freeItems |-> Undefined, discountType |-> Undefined]

\* 'percentage' or 'fixed', decided by the size of discountValue
DiscountLabel(c) ==
    IF c.discountValue <= FixedThreshold THEN "percentage" ELSE "fixed"

\* Variant: the cart-wise cap is not applied.
CapCartDiscount_NoCap(c, discount) == discount

\* if (coupon.maxDiscount && discount > coupon.maxDiscount)
CapCartDiscount(c, discount) ==
    IF Truthy(c.maxDiscount) /\ discount > c.maxDiscount[1]
    THEN c.maxDiscount[1]
    ELSE discount

calculateCartWiseDiscount(c, crt, applicability) ==
    LET cartTotal == applicability.cartTotal[1]
        raw == IF c.discountValue <= FixedThreshold
               THEN (cartTotal * c.discountValue) \div PercentBase
               ELSE c.discountValue
        discount == Min(CapCartDiscount(c, raw), cartTotal)
    IN  [NoDiscount EXCEPT !.discount = discount,
                           !.cartTotal = Some(cartTotal),
                           !.discountType = Some(DiscountLabel(c))]

RECURSIVE SumField(_, _)
SumField(list, field) ==
    IF list = <<>> THEN 0
    ELSE SumField(SubSeq(list, 1, Len(list) - 1), field)
         + list[Len(list)][field]

\* The discount of one matched item before any cap.
RawItemDiscount(c, item) ==
    IF c.discountValue <= FixedThreshold
    THEN (item.price * item.quantity * c.discountValue) \div PercentBase
    ELSE c.discountValue * item.quantity

\* if (coupon.maxDiscount) itemDiscount = Math.min(itemDiscount, maxDiscount)
CapItemDiscount(c, itemDiscount) ==
    IF Truthy(c.maxDiscount) THEN Min(itemDiscount, c.maxDiscount[1])
    ELSE itemDiscount

\* Variant: the item discount is not clamped to the item's subtotal.
ClampToItemTotal_NoClamp(item, itemDiscount) == itemDiscount

\* itemDiscount = Math.min(itemDiscount, item.price * item.quantity)
ClampToItemTotal(item, itemDiscount) ==
    Min(itemDiscount, item.price * item.quantity)

ItemDiscount(c, item) ==
    ClampToItemTotal(item, CapItemDiscount(c, RawItemDiscount(c, item)))

\* Variant: maxDiscount caps the aggregate instead of each item.
calculateProductWiseDiscount_AggregateCap(c, crt, applicability) ==
    LET applicableItems == applicability.applicableItems[1]
        itemDiscounts ==
            [i \in DOMAIN applicableItems |->
                [productId |-> applicableItems[i].productId,
                 quantity |-> applicableItems[i].quantity,
                 itemDiscount |->
                     ClampToItemTotal(applicableItems[i],
                                      RawItemDiscount(c, applicableItems[i]))]]
        totalDiscount == SumField(itemDiscounts, "itemDiscount")
    IN  [NoDiscount EXCEPT
            !.discount = IF Truthy(c.maxDiscount)
                         THEN Min(totalDiscount, c.maxDiscount[1])
                         ELSE totalDiscount,
            !.applicableTotal = applicability.applicableTotal,
            !.itemDiscounts = Some(itemDiscounts),
            !.discountType = Some(DiscountLabel(c))]

calculateProductWiseDiscount(c, crt, applicability) ==
    LET applicableItems == applicability.applicableItems[1]
        itemDiscounts ==
            [i \in DOMAIN applicableItems |->
                [productId |-> applicableItems[i].productId,
                 quantity |-> applicableItems[i].quantity,
                 itemDiscount |-> ItemDiscount(c, applicableItems[i])]]
    IN  [NoDiscount EXCEPT !.discount = SumField(itemDiscounts, "itemDiscount"),
                           !.applicableTotal = applicability.applicableTotal,
                           !.itemDiscounts = Some(itemDiscounts),
                           !.discountType = Some(DiscountLabel(c))]

\* cart.items.find(item => item.productId === id): the index of the first
\* such item, 0 when there is none
FindIndex(items, id) ==
    IF \E i \in DOMAIN items : items[i].productId = id
    THEN CHOOSE i \in DOMAIN items :
             /\ items[i].productId = id
             /\ \A j \in DOMAIN items : items[j].productId = id => i <= j
    ELSE 0

\* Variant: the free quantity is not limited to the quantity in the cart.
FreeItem_NoMin(getReq, items, maxApplications) ==
    LET k == FindIndex(items, getReq.productId)
        freeQuantity == getReq.quantity * maxApplications
    IN  IF k # 0
        THEN [productId |-> getReq.productId,
              freeQuantity |-> freeQuantity,
              itemDiscount |-> items[k].price * freeQuantity,
              note |-> Undefined]
        ELSE [productId |-> getReq.productId,
              freeQuantity |-> freeQuantity,
              itemDiscount |-> 0,
              note |-> <<"Item not in cart">>]

\* The entry of freeItems for one get requirement.
FreeItem(getReq, items, maxApplications) ==
    LET k == FindIndex(items, getReq.productId)
        freeQuantity == getReq.quantity * maxApplications
    IN  IF k # 0
        THEN LET actualFreeQuantity == Min(freeQuantity, items[k].quantity)
             IN  [productId |-> getReq.productId,
                  freeQuantity |-> actualFreeQuantity,
                  itemDiscount |-> items[k].price * actualFreeQuantity,
                  note |-> Undefined]
        ELSE [productId |-> getReq.productId,
              freeQuantity |-> freeQuantity,
              itemDiscount |-> 0,
              note |-> <<"Item not in cart">>]

calculateBxGyDiscount(c, crt, applicability) ==
    LET maxApplications == applicability.maxApplications[1]
        freeItems ==
            [i \in DOMAIN c.getProducts |->
                FreeItem(c.getProducts[i], crt.items, maxApplications)]
    IN  [NoDiscount EXCEPT !.discount = SumField(freeItems, "itemDiscount"),
                           !.maxApplications = Some(maxApplications),
                           !.freeItems = Some(freeItems),
                           !.discountType = Some("free_items")]

\* Variant: the zero discount does not carry the applicability's fields.
ZeroDiscount_NoReason(applicability) == NoDiscount

\* { discount: 0, ...applicability }
ZeroDiscount(applicability) ==
    [NoDiscount EXCEPT !.applicable = Some(applicability.applicable),
                       !.reason = applicability.reason]

calculateDiscount(c, crt, t) ==
    LET applicability == isCouponApplicable(c, crt, t)
    IN  IF IsDefined(applicability.raised)
        THEN [NoDiscount EXCEPT !.raised = applicability.raised]
        ELSE IF ~applicability.applicable THEN ZeroDiscount(applicability)
        ELSE CASE c.type = "CART_WISE" ->
                      calculateCartWiseDiscount(c, crt, applicability)
               [] c.type = "PRODUCT_WISE" ->
                      calculateProductWiseDiscount(c, crt, applicability)
               [] c.type = "BXGY" ->
                      calculateBxGyDiscount(c, crt, applicability)
               [] OTHER ->
                      [NoDiscount EXCEPT !.reason = <<"Unknown coupon type">>]

(***************************************************************************)
(* CouponService: applying a coupon to a cart.                             *)
(***************************************************************************)
\* JSON.parse(JSON.stringify(cart)): the same items, as new objects that
\* do not have the annotations yet
JsonCopy(crt) ==
    [items |-> [i \in DOMAIN crt.items |->
                   [productId |-> crt.items[i].productId,
                    quantity |-> crt.items[i].quantity,
                    price |-> crt.items[i].price,
                    totalDiscount |-> Undefined,
                    discountedPrice |-> Undefined,
                    freeQuantity |-> Undefined]]]

\* item.totalDiscount = (item.totalDiscount || 0) + itemDiscount;
\* item.discountedPrice = item.price * item.quantity - item.totalDiscount
AddItemDiscount(item, itemDiscount) ==
    LET totalDiscount ==
            (IF Truthy(item.totalDiscount) THEN item.totalDiscount[1] ELSE 0)
            + itemDiscount
    IN  [item EXCEPT !.totalDiscount = Some(totalDiscount),
                     !.discountedPrice =
                         Some(item.price * item.quantity - totalDiscount)]

\* The PRODUCT_WISE forEach over discountResult.itemDiscounts, from entry i.
RECURSIVE AnnotateItemDiscounts(_, _, _)
AnnotateItemDiscounts(items, itemDiscounts, i) ==
    IF i > Len(itemDiscounts) THEN items
    ELSE LET k == FindIndex(items, itemDiscounts[i].productId)
         IN  AnnotateItemDiscounts(
                 IF k # 0
                 THEN [items EXCEPT
                          ![k] = AddItemDiscount(@, itemDiscounts[i].itemDiscount)]
                 ELSE items,
                 itemDiscounts, i + 1)

\* Variant: a free item that is not in the cart is added to it.
RECURSIVE AnnotateFreeItems_AddsAbsent(_, _, _)
AnnotateFreeItems_AddsAbsent(items, freeItems, i) ==
    IF i > Len(freeItems) THEN items
    ELSE LET k == FindIndex(items, freeItems[i].productId)
         IN  AnnotateFreeItems_AddsAbsent(
                 IF k # 0 /\ freeItems[i].itemDiscount > 0
                 THEN [items EXCEPT
                          ![k] = [AddItemDiscount(@, freeItems[i].itemDiscount)
                                     EXCEPT !.freeQuantity =
                                                Some(freeItems[i].freeQuantity)]]
                 ELSE IF k = 0
                 THEN Append(items,
                             [productId |-> freeItems[i].productId,
                              quantity |-> freeItems[i].freeQuantity,
                              price |-> 0,
                              totalDiscount |-> Undefined,
                              discountedPrice |-> Undefined,
                              freeQuantity |-> Some(freeItems[i].freeQuantity)])
                 ELSE items,
                 freeItems, i + 1)

\* The BXGY forEach over discountResult.freeItems, from entry i.
RECURSIVE AnnotateFreeItems(_, _, _)
AnnotateFreeItems(items, freeItems, i) ==
    IF i > Len(freeItems) THEN items
    ELSE LET k == FindIndex(items, freeItems[i].productId)
         IN  AnnotateFreeItems(
                 IF k # 0 /\ freeItems[i].itemDiscount > 0
                 THEN [items EXCEPT
                          ![k] = [AddItemDiscount(@, freeItems[i].itemDiscount)
                                     EXCEPT !.freeQuantity =
                                                Some(freeItems[i].freeQuantity)]]
                 ELSE items,
                 freeItems, i + 1)

\* 'Cannot apply coupon: ' + (discountResult.reason || 'Invalid coupon')
ErrorMessage(discountResult) ==
    <<"Cannot apply coupon: ">>
    \o (IF IsDefined(discountResult.reason) THEN discountResult.reason
        ELSE <<"Invalid coupon">>)

\* Variant: the error is thrown when the result carries a reason.
ShouldThrow_OnReason(discountResult) == IsDefined(discountResult.reason)

\* if (discountResult.discount === 0) throw
ShouldThrow(discountResult) == discountResult.discount = 0

\* Variant: the discount is not subtracted from the final price.
CartTotals_NoSubtract(cartTotal, discountResult) ==
    [totalPrice |-> cartTotal,
     totalDiscount |-> discountResult.discount,
     finalPrice |-> cartTotal]

\* updatedCart.totalPrice, .totalDiscount, .finalPrice
CartTotals(cartTotal, discountResult) ==
    [totalPrice |-> cartTotal,
     totalDiscount |-> discountResult.discount,
     finalPrice |-> cartTotal - discountResult.discount]

applyCouponToCart(c, crt, t) ==
    LET discountResult == calculateDiscount(c, crt, t)
    IN  IF IsDefined(discountResult.raised)
        THEN [threw |-> TRUE, message |-> discountResult.raised,
              updatedCart |-> Undefined, discountResult |-> Undefined]
        ELSE IF ShouldThrow(discountResult)
        THEN [threw |-> TRUE, message |-> ErrorMessage(discountResult),
              updatedCart |-> Undefined, discountResult |-> Undefined]
        ELSE LET copy == JsonCopy(crt)
                 cartTotal == calculateCartTotal(crt)
                 items ==
                     CASE c.type = "CART_WISE" -> copy.items
                       [] c.type = "PRODUCT_WISE" ->
                              AnnotateItemDiscounts(
                                  copy.items, discountResult.itemDiscounts[1], 1)
                       [] c.type = "BXGY" ->
                              AnnotateFreeItems(
                                  copy.items, discountResult.freeItems[1], 1)
                       [] OTHER -> copy.items
                 updatedCart ==
                     [items |-> items,
                      appliedCoupon |->
                          [couponId |-> c.id, code |-> c.code, type |-> c.type,
                           discountValue |-> discountResult.discount]]
                     @@ CartTotals(cartTotal, discountResult)
             IN  [threw |-> FALSE, message |-> Undefined,
                  updatedCart |-> Some(updatedCart),
                  discountResult |-> Some(discountResult)]

\* Variant: the copy is { ...cart }, which holds the cart's own items.
SharedWithCopy_Spread(crt) == {"items"}

\* The objects of the cart that JSON.parse(JSON.stringify(cart)) holds too:
\* parsing builds every object anew, so none.
SharedWithCopy(crt) == {}

\* The caller's cart after applyCouponToCart returned result: the
\* annotations are written to the items of the copy, and show in the cart
\* exactly where the copy holds the cart's own items.
CartAfterApply(crt, result) ==
    IF result.threw \/ "items" \notin SharedWithCopy(crt) THEN crt
    ELSE [crt EXCEPT !.items =
             [i \in DOMAIN crt.items |->
                 IF IsDefined(result.updatedCart[1].items[i].totalDiscount)
                 THEN result.updatedCart[1].items[i]
                 ELSE crt.items[i]]]

(***************************************************************************)
(* State machine: one call of a service method on the inputs.              *)
(***************************************************************************)
Init ==
    /\ coupon \in Coupons
    /\ cart \in Carts
    /\ now \in (IF IsDefined(coupon.expirationDate) THEN 0..MaxTime ELSE {0})
    /\ op = "none"
    /\ ret = Undefined
    /\ store = <<>>
    /\ reqs = <<>>

IsCouponApplicableCall ==
    /\ op = "none"
    /\ op' = "isCouponApplicable"
    /\ ret' = isCouponApplicable(coupon, cart, now)
    /\ UNCHANGED <<coupon, cart, now, store, reqs>>

CalculateDiscountCall ==
    /\ op = "none"
    /\ op' = "calculateDiscount"
    /\ ret' = calculateDiscount(coupon, cart, now)
    /\ UNCHANGED <<coupon, cart, now, store, reqs>>

ApplyCouponToCartCall ==
    /\ op = "none"
    /\ op' = "applyCouponToCart"
    /\ ret' = applyCouponToCart(coupon, cart, now)
    /\ cart' = CartAfterApply(cart, applyCouponToCart(coupon, cart, now))
    /\ UNCHANGED <<coupon, now, store, reqs>>

Next ==
    \/ IsCouponApplicableCall
    \/ CalculateDiscountCall
    \/ ApplyCouponToCartCall

Spec == Init /\ [][Next]_vars

(***************************************************************************)
(* The service methods called without a usable cart: calculateCartTotal    *)
(* provides for a cart that is absent or has no items list.                *)
(***************************************************************************)
CartWithoutItems == [totalPrice |-> 0]

MalformedCarts == {Undefined, CartWithoutItems}

DirectInit ==
    /\ coupon \in Coupons
    /\ cart \in MalformedCarts
    /\ now \in (IF IsDefined(coupon.expirationDate) THEN 0..MaxTime ELSE {0})
    /\ op = "none"
    /\ ret = Undefined
    /\ store = <<>>
    /\ reqs = <<>>

DirectSpec == DirectInit /\ [][Next]_vars

(***************************************************************************)
(* CouponService.getApplicableCoupons over the stored coupons.             *)
(***************************************************************************)
MaxStored == 3

\* The coupons the collection is filled from: two CART_WISE and two
\* PRODUCT_WISE coupons whose discounts can be equal, a BXGY coupon, and a
\* CART_WISE coupon that may be inactive or have an expirationDate.
ListedCoupons ==
    {c \in CartWiseCoupons :
        /\ c.discountValue = 50 /\ c.minCartValue = 0
        /\ c.maxDiscount \in {Undefined, Some(150)}}
    \cup {c \in ProductWiseCoupons :
             /\ c.discountValue = 50 /\ c.discountType = "PERCENTAGE"
             /\ c.maxDiscount = Undefined /\ c.minCartValue = 0
             /\ c.applicableProducts \in {{1}, ProductIds}}
    \cup {c \in GatedCoupons :
             /\ c.type \in {"CART_WISE", "BXGY"} /\ c.minCartValue = 0
             /\ c.usageLimit = Undefined /\ c.currentUsage = 0
             /\ c.type = "BXGY" => (c.isActive /\ c.expirationDate = Undefined)}

\* createCoupon refuses a code that is stored already: the i-th document
\* of a collection has a code of its own.
StoredCode(i) == "COUPON" \o ToString(i)

\* A collection of up to MaxStored documents; _id is the place in it.
Stores ==
    UNION {{[i \in 1..n |-> [s[i] EXCEPT !.id = i, !.code = StoredCode(i)]] :
               s \in [1..n -> ListedCoupons]} : n \in 1..MaxStored}

\* couponModel.find({ isActive: true, $or: [{ expirationDate: { $gt: t } },
\* { expirationDate: null }] }), in the collection's order
Find(couponModel, t) ==
    SelectSeq(couponModel,
              LAMBDA c : /\ c.isActive
                         /\ \/ c.expirationDate = Undefined
                            \/ c.expirationDate[1] > t)

\* Variant: an entry goes before the entries of the same discount.
InsertByDiscount_BeforeEqual(sorted, e) ==
    LET k == Cardinality({i \in DOMAIN sorted : sorted[i].discount > e.discount})
    IN  SubSeq(sorted, 1, k) \o <<e>> \o SubSeq(sorted, k + 1, Len(sorted))

\* The place of an entry among those sorted before it by
\* (a, b) => b.discount - a.discount: the sort is stable, so after the
\* entries whose discount is at least its own.
InsertByDiscount(sorted, e) ==
    LET k == Cardinality({i \in DOMAIN sorted : sorted[i].discount >= e.discount})
    IN  SubSeq(sorted, 1, k) \o <<e>> \o SubSeq(sorted, k + 1, Len(sorted))

\* applicableCoupons.sort((a, b) => b.discount - a.discount)
RECURSIVE SortByDiscount(_)
SortByDiscount(list) ==
    IF list = <<>> THEN <<>>
    ELSE InsertByDiscount(SortByDiscount(SubSeq(list, 1, Len(list) - 1)),
                          list[Len(list)])

\* t is the clock when the query is made, later the clock when the
\* discounts are calculated.
getApplicableCoupons(crt, couponModel, t, later) ==
    LET coupons == Find(couponModel, t)
        entries ==
            [i \in DOMAIN coupons |->
                LET discountResult == calculateDiscount(coupons[i], crt, later)
                IN  [couponId |-> coupons[i].id, code |-> coupons[i].code,
                     type |-> coupons[i].type,
                     discount |-> discountResult.discount,
                     details |-> discountResult]]
        applicableCoupons == SelectSeq(entries, LAMBDA e : e.discount > 0)
    IN  SortByDiscount(applicableCoupons)

ListInit ==
    /\ coupon = BaseCoupon
    /\ cart \in Carts
    /\ now \in 0..MaxTime
    /\ op = "none"
    /\ ret = Undefined
    /\ store \in Stores
    /\ reqs = <<>>

GetApplicableCouponsCall ==
    /\ op = "none"
    /\ op' = "getApplicableCoupons"
    /\ \E later \in now..MaxTime :
           /\ ret' = getApplicableCoupons(cart, store, now, later)
           /\ now' = later
    /\ UNCHANGED <<coupon, cart, store, reqs>>

ListNext == GetApplicableCouponsCall

ListSpec == ListInit /\ [][ListNext]_vars

(***************************************************************************)
(* The controller's applyCoupon handler, run by concurrent requests.  A    *)
(* request stops at each await: for findById and for save.                 *)
(***************************************************************************)
MaxRequests == 2
MaxTargets == 2

Requests == 1..MaxRequests

\* Coupons in use: active, without expirationDate, not used yet, with and
\* without a usageLimit.
AppliedCoupons ==
    {c \in GatedCoupons :
        /\ c.type \in {"CART_WISE", "PRODUCT_WISE"}
        /\ c.isActive /\ c.expirationDate = Undefined
        /\ c.currentUsage = 0 /\ c.minCartValue = 0}

AppliedStores ==
    UNION {{[i \in 1..n |-> [s[i] EXCEPT !.id = i, !.code = StoredCode(i)]] :
               s \in [1..n -> AppliedCoupons]} : n \in 1..MaxTargets}

\* req.body.cart: a cart of one line item of the first or of the last
\* product, or a cart with no line item.
RequestBodies ==
    {c \in Carts :
        /\ Len(c.items) = 1
        /\ c.items[1].quantity = 1
        /\ c.items[1].productId \in {1, MaxProduct}}
    \cup {[items |-> <<>>]}

\* cartSchema: items is required and has at least one item, each with a
\* positive productId, quantity and price; validateCart(body).error
ValidationError(body) ==
    ~(/\ HasItems(body)
      /\ Len(body.items) >= 1
      /\ \A i \in DOMAIN body.items :
             /\ body.items[i].productId > 0
             /\ body.items[i].quantity > 0
             /\ body.items[i].price > 0)

Idle ==
    [pc |-> "idle", id |-> 0, cart |-> Undefined, doc |-> Undefined,
     status |-> 0]

\* res.status(status): the request is answered.
Respond(request, status) ==
    [request EXCEPT !.pc = "done", !.status = status,
                    !.cart = Undefined, !.doc = Undefined]

ApplyInit ==
    /\ coupon = BaseCoupon
    /\ cart = Undefined
    /\ now = 0
    /\ op = "none"
    /\ ret = Undefined
    /\ store \in AppliedStores
    /\ reqs = [r \in Requests |-> Idle]

\* A request arrives: validateCart, then the call of Coupon.findById.
Receive(r) ==
    /\ reqs[r].pc = "idle"
    /\ \E body \in RequestBodies, id \in 1..(Len(store) + 1) :
           reqs' = [reqs EXCEPT ![r] =
                       IF ValidationError(body)
                       THEN Respond([@ EXCEPT !.id = id], 400)
                       ELSE [@ EXCEPT !.pc = "find", !.id = id,
                                      !.cart = body]]
    /\ UNCHANGED <<coupon, cart, now, op, ret, store>>

\* findById answers with the stored document, or with null; the handler
\* runs on to its next await: applyCouponToCart on the loaded document
\* and, when that returned, coupon.currentUsage += 1 and the call of save.
FindById(r) ==
    /\ reqs[r].pc = "find"
    /\ reqs' = [reqs EXCEPT ![r] =
                   IF reqs[r].id \notin DOMAIN store
                   THEN Respond(@, 404)
                   ELSE IF applyCouponToCart(store[reqs[r].id],
                                             reqs[r].cart, now).threw
                   THEN Respond(@, 400)
                   ELSE [@ EXCEPT
                            !.pc = "save",
                            !.cart = Undefined,
                            !.doc = [store[reqs[r].id] EXCEPT
                                        !.currentUsage = @ + 1]]]
    /\ UNCHANGED <<coupon, cart, now, op, ret, store>>

\* coupon.save() writes the path that was modified, currentUsage, with the
\* value the document has in memory.
SaveUsage(couponModel, doc) ==
    [couponModel EXCEPT ![doc.id].currentUsage = doc.currentUsage]

\* The save is done, and the handler answers with the result.
Save(r) ==
    /\ reqs[r].pc = "save"
    /\ store' = SaveUsage(store, reqs[r].doc)
    /\ reqs' = [reqs EXCEPT ![r] = Respond(@, 200)]
    /\ UNCHANGED <<coupon, cart, now, op, ret>>

ApplyNext ==
    \E r \in Requests : Receive(r) \/ FindById(r) \/ Save(r)

ApplySpec == ApplyInit /\ [][ApplyNext]_vars

(***************************************************************************)
(* The controller's createCoupon, updateCoupon, deleteCoupon and           *)
(* getCouponById handlers, run by concurrent requests over one collection. *)
(* A handler stops at each await.  A document that a handler has loaded is *)
(* kept as its _id and code, the two fields the handlers go on to use.     *)
(***************************************************************************)
MaxHandlers == 2

Handlers == 1..MaxHandlers

Codes == {"SAVE10", "PROD20"}

\* req.body of createCoupon: a coupon of each type under each code, and a
\* PRODUCT_WISE coupon without products.
CreateBodies ==
    {[c EXCEPT !.code = code] :
        c \in {g \in GateBases : g.type \in {"CART_WISE", "PRODUCT_WISE"}}
               \cup {[g EXCEPT !.applicableProducts = {}] :
                        g \in {h \in GateBases : h.type = "PRODUCT_WISE"}},
        code \in Codes}
    \cup {[c EXCEPT !.code = "SAVE10"] : c \in {g \in GateBases : g.type = "BXGY"}}

\* req.body of updateCoupon: only the keys to change; a body without type
\* is not among them.
UpdateBodies ==
    {[type |-> "PRODUCT_WISE"], [type |-> "CART_WISE"],
     [type |-> "PRODUCT_WISE", applicableProducts |-> {}]}
    \cup {[type |-> "CART_WISE", code |-> code] : code \in Codes}

\* validateCoupon(body).error for a new coupon: the schema of the body's
\* type, with its required and forbidden keys.
validateCoupon(body) ==
    CASE body.type = "CART_WISE" ->
             ~(/\ body.discountValue >= 1 /\ body.discountValue <= 100
               /\ body.applicableProducts = {}
               /\ body.buyProducts = <<>> /\ body.getProducts = <<>>)
      [] body.type = "PRODUCT_WISE" ->
             ~(/\ body.discountValue > 0
               /\ body.discountType \in {"PERCENTAGE", "FIXED_AMOUNT"}
               /\ body.applicableProducts # {}
               /\ body.buyProducts = <<>> /\ body.getProducts = <<>>
               /\ ~(body.discountType = "PERCENTAGE"
                       /\ body.discountValue > 100))
      [] body.type = "BXGY" ->
             ~(/\ body.applicableProducts = {}
               /\ Len(body.buyProducts) >= 1 /\ Len(body.getProducts) >= 1
               /\ Cardinality(ReqIds(body.buyProducts)) = Len(body.buyProducts)
               /\ Cardinality(ReqIds(body.getProducts)) = Len(body.getProducts)
               /\ ReqIds(body.buyProducts) \cap ReqIds(body.getProducts) = {})
      [] OTHER -> TRUE

\* Coupon.validateCouponData(value).length > 0
validateCouponData(value) ==
    CASE value.type = "CART_WISE" ->
             \/ value.discountValue <= 0 \/ value.discountValue > 100
             \/ value.applicableProducts # {}
             \/ value.buyProducts # <<>> \/ value.getProducts # <<>>
      [] value.type = "PRODUCT_WISE" ->
             \/ value.applicableProducts = {}
             \/ value.buyProducts # <<>> \/ value.getProducts # <<>>
      [] value.type = "BXGY" ->
             \/ value.buyProducts = <<>> \/ value.getProducts = <<>>
             \/ value.applicableProducts # {}
      [] OTHER -> FALSE

\* validateCoupon(body, true).error: the schema of the body's type with
\* every key optional, so only the keys that are there are checked.
validateCouponUpdate(body) ==
    \/ body.type \notin {"CART_WISE", "PRODUCT_WISE", "BXGY"}
    \/ /\ "applicableProducts" \in DOMAIN body
       /\ body.type = "PRODUCT_WISE"
       /\ body.applicableProducts = {}

\* The value of a validated update: the body, and the schema's defaults
\* for the keys it has not.
UpdateValue(body) ==
    body @@ [minCartValue |-> 0, repetitionLimit |-> 1, isActive |-> TRUE,
             currentUsage |-> 0]

\* Object.assign(existingCoupon, value), saved over the stored document.
Assign(doc, value) ==
    [f \in DOMAIN doc |-> IF f \in DOMAIN value THEN value[f] ELSE doc[f]]

\* Coupon.findOne({ code }): the first stored document of that code, as
\* its _id and code, or null.
FindOne(couponModel, code) ==
    LET found == SelectSeq(couponModel, LAMBDA c : c.code = code)
    IN  IF found = <<>> THEN Undefined
        ELSE [id |-> found[1].id, code |-> found[1].code]

\* An _id that no stored document and no loaded document has.
NewId ==
    CHOOSE n \in 1..(Len(store) + MaxHandlers + 1) :
        /\ \A i \in DOMAIN store : store[i].id # n
        /\ \A r \in Handlers : reqs[r].doc = Undefined \/ reqs[r].doc.id # n
        /\ \A m \in 1..(n - 1) :
               \/ \E i \in DOMAIN store : store[i].id = m
               \/ \E r \in Handlers :
                      reqs[r].doc # Undefined /\ reqs[r].doc.id = m

\* The unique index on code: a write that gives the document _id a code
\* that another stored document has is refused with a duplicate key error.
DuplicateKey(couponModel, id, code) ==
    \E i \in DOMAIN couponModel :
        couponModel[i].code = code /\ couponModel[i].id # id

\* createCoupon has no try/catch: when its save is refused, the handler
\* sends no answer (0), or the framework answers 500 for it.
UnhandledStatuses == {0, 500}

Waiting ==
    [pc |-> "idle", kind |-> "none", param |-> "", body |-> Undefined,
     doc |-> Undefined, status |-> 0]

\* The handler of the request has ended with this status.
Answer(request, status) ==
    [Waiting EXCEPT !.pc = "done", !.kind = request.kind, !.status = status]

\* The handler is free to take a request.
Free(r) == reqs[r].pc \in {"idle", "done"}

CrudInit ==
    /\ coupon = BaseCoupon
    /\ cart = Undefined
    /\ now = 0
    /\ op = "none"
    /\ ret = Undefined
    /\ store = <<>>
    /\ reqs = [r \in Handlers |-> Waiting]

\* createCoupon up to its first await: the two validations, then the
\* call of findOne.
ReceiveCreate(r) ==
    /\ Free(r)
    /\ \E body \in CreateBodies :
           reqs' = [reqs EXCEPT ![r] =
                       IF validateCoupon(body) \/ validateCouponData(body)
                       THEN Answer([Waiting EXCEPT !.kind = "create"], 400)
                       ELSE [Waiting EXCEPT !.pc = "create_find",
                                            !.kind = "create",
                                            !.body = body]]
    /\ UNCHANGED <<coupon, cart, now, op, ret, store>>

\* findOne({ code }) has answered: 400 when the code is stored, else
\* new Coupon(value) and the call of save.
CreateFindOne(r) ==
    /\ reqs[r].pc = "create_find"
    /\ reqs' = [reqs EXCEPT ![r] =
                   IF FindOne(store, reqs[r].body.code) # Undefined
                   THEN Answer(@, 400)
                   ELSE [@ EXCEPT !.pc = "create_save"]]
    /\ UNCHANGED <<coupon, cart, now, op, ret, store>>

\* The save of the new document.
CreateSave(r) ==
    /\ reqs[r].pc = "create_save"
    /\ IF DuplicateKey(store, 0, reqs[r].body.code)
       THEN /\ \E status \in UnhandledStatuses :
                  reqs' = [reqs EXCEPT ![r] = Answer(@, status)]
            /\ store' = store
       ELSE /\ store' = Append(store, [reqs[r].body EXCEPT !.id = NewId])
            /\ reqs' = [reqs EXCEPT ![r] = Answer(@, 201)]
    /\ UNCHANGED <<coupon, cart, now, op, ret>>

\* updateCoupon up to its first await: the validation, then the call of
\* findOne({ code: req.params.id }).
ReceiveUpdate(r) ==
    /\ Free(r)
    /\ \E param \in Codes, body \in UpdateBodies :
           reqs' = [reqs EXCEPT ![r] =
                       IF validateCouponUpdate(body)
                       THEN Answer([Waiting EXCEPT !.kind = "update"], 400)
                       ELSE [Waiting EXCEPT !.pc = "update_find",
                                            !.kind = "update",
                                            !.param = param,
                                            !.body = UpdateValue(body)]]
    /\ UNCHANGED <<coupon, cart, now, op, ret, store>>

\* The coupon to update is loaded, or is not there: 404.  A new code
\* is looked up first; otherwise the value is assigned and save is called.
UpdateFindOne(r) ==
    /\ reqs[r].pc = "update_find"
    /\ LET existingCoupon == FindOne(store, reqs[r].param)
       IN  reqs' = [reqs EXCEPT ![r] =
                       IF existingCoupon = Undefined THEN Answer(@, 404)
                       ELSE IF /\ "code" \in DOMAIN reqs[r].body
                               /\ reqs[r].body.code # existingCoupon.code
                       THEN [@ EXCEPT !.pc = "update_duplicate",
                                      !.doc = existingCoupon]
                       ELSE [@ EXCEPT !.pc = "update_save",
                                      !.doc = existingCoupon]]
    /\ UNCHANGED <<coupon, cart, now, op, ret, store>>

\* findOne({ code: normalizedNewCode }) has answered.
UpdateFindDuplicate(r) ==
    /\ reqs[r].pc = "update_duplicate"
    /\ reqs' = [reqs EXCEPT ![r] =
                   IF FindOne(store, reqs[r].body.code) # Undefined
                   THEN Answer(@, 400)
                   ELSE [@ EXCEPT !.pc = "update_save"]]
    /\ UNCHANGED <<coupon, cart, now, op, ret, store>>

\* existingCoupon.save() of a document that has been deleted meanwhile
\* writes nothing; it resolves, or it raises and the catch answers 500.
SaveOfDeletedStatuses == {200, 500}

\* The save of the assigned document: the assigned paths are written to
\* the stored document of that _id; a refused write is caught: 500.
UpdateSave(r) ==
    /\ reqs[r].pc = "update_save"
    /\ LET id == reqs[r].doc.id
           value == reqs[r].body
           stored == {i \in DOMAIN store : store[i].id = id}
       IN  IF stored = {}
           THEN /\ \E status \in SaveOfDeletedStatuses :
                      reqs' = [reqs EXCEPT ![r] = Answer(@, status)]
                /\ store' = store
           ELSE IF "code" \in DOMAIN value /\ DuplicateKey(store, id, value.code)
           THEN /\ reqs' = [reqs EXCEPT ![r] = Answer(@, 500)]
                /\ store' = store
           ELSE /\ store' = [i \in DOMAIN store |->
                               IF i \in stored THEN Assign(store[i], value)
                               ELSE store[i]]
                /\ reqs' = [reqs EXCEPT ![r] = Answer(@, 200)]
    /\ UNCHANGED <<coupon, cart, now, op, ret>>

\* deleteCoupon up to its first await: the call of findOne.
ReceiveDelete(r) ==
    /\ Free(r)
    /\ \E param \in Codes :
           reqs' = [reqs EXCEPT ![r] =
                       [Waiting EXCEPT !.pc = "delete_find", !.kind = "delete",
                                       !.param = param]]
    /\ UNCHANGED <<coupon, cart, now, op, ret, store>>

DeleteFindOne(r) ==
    /\ reqs[r].pc = "delete_find"
    /\ LET found == FindOne(store, reqs[r].param)
       IN  reqs' = [reqs EXCEPT ![r] =
                       IF found = Undefined THEN Answer(@, 404)
                       ELSE [@ EXCEPT !.pc = "delete_one", !.doc = found]]
    /\ UNCHANGED <<coupon, cart, now, op, ret, store>>

\* coupon.deleteOne(): the stored document of that _id goes, if it is
\* still there.
DeleteOne(r) ==
    /\ reqs[r].pc = "delete_one"
    /\ store' = SelectSeq(store, LAMBDA c : c.id # reqs[r].doc.id)
    /\ reqs' = [reqs EXCEPT ![r] = Answer(@, 200)]
    /\ UNCHANGED <<coupon, cart, now, op, ret>>

\* getCouponById up to its await: the call of find({ code }).
ReceiveGet(r) ==
    /\ Free(r)
    /\ \E param \in Codes :
           reqs' = [reqs EXCEPT ![r] =
                       [Waiting EXCEPT !.pc = "get_find", !.kind = "get",
                                       !.param = param]]
    /\ UNCHANGED <<coupon, cart, now, op, ret, store>>

\* !coupon for the array that find answers with: an array is truthy,
\* an empty one too.
IsFalsyArray(array) == FALSE

GetFind(r) ==
    /\ reqs[r].pc = "get_find"
    /\ LET found == SelectSeq(store, LAMBDA c : c.code = reqs[r].param)
       IN  reqs' = [reqs EXCEPT ![r] =
                       IF IsFalsyArray(found) THEN Answer(@, 404)
                       ELSE Answer(@, 200)]
    /\ UNCHANGED <<coupon, cart, now, op, ret, store>>

CrudNext ==
    \E r \in Handlers :
        \/ ReceiveCreate(r) \/ CreateFindOne(r) \/ CreateSave(r)
        \/ ReceiveUpdate(r) \/ UpdateFindOne(r) \/ UpdateFindDuplicate(r)
        \/ UpdateSave(r)
        \/ ReceiveDelete(r) \/ DeleteFindOne(r) \/ DeleteOne(r)
        \/ ReceiveGet(r) \/ GetFind(r)

CrudSpec == CrudInit /\ [][CrudNext]_vars

(***************************************************************************)
(* Properties.                                                             *)
(***************************************************************************)
\* The sum of f[x] over the x in S.
RECURSIVE SumOver(_, _)
SumOver(f, S) ==
    IF S = {} THEN 0
    ELSE LET x == CHOOSE y \in S : TRUE
         IN  f[x] + SumOver(f, S \ {x})

\* Sum of price * quantity over all the cart's items.
CartSubtotal(crt) ==
    SumOver([i \in DOMAIN crt.items |->
                crt.items[i].price * crt.items[i].quantity],
            DOMAIN crt.items)

\* The indexes of the cart items whose productId is in applicableProducts.
MatchedIndexes(c, crt) ==
    {i \in DOMAIN crt.items : crt.items[i].productId \in c.applicableProducts}

MatchedSubtotal(c, crt) ==
    SumOver([i \in DOMAIN crt.items |->
                crt.items[i].price * crt.items[i].quantity],
            MatchedIndexes(c, crt))

NotApplicableReason == <<"Coupon is not active, expired, or usage limit reached">>

InsufficientReason == <<"Insufficient quantity of buy products">>

\* min(repetitionLimit, min over the buy requirements r of
\* floor(cartQuantity(r.productId) / r.quantity)), cartQuantity being the
\* engine's product -> quantity map of the cart
ExpectedApplications(c, crt) ==
    LET possible ==
            {CartQuantity(CartProducts(crt.items), c.buyProducts[i].productId)
                 \div c.buyProducts[i].quantity : i \in DOMAIN c.buyProducts}
        least == CHOOSE m \in possible : \A n \in possible : m <= n
    IN  Min(c.repetitionLimit, least)

\* C1: for a BXGY coupon that reaches checkBxGyApplicability, the
\* applications count is min(repetitionLimit, min over all buy requirements
\* of floor(cartQuantity / quantity)); the coupon is inapplicable when that
\* is 0, whatever the order of buyProducts.
C1_ApplicationsIsMinimum ==
    (/\ op = "isCouponApplicable"
     /\ coupon.type = "BXGY"
     /\ (ret.applicable \/ ret.reason = InsufficientReason))
    => IF ExpectedApplications(coupon, cart) = 0
       THEN ~ret.applicable
       ELSE /\ ret.applicable
            /\ ret.maxApplications = Some(ExpectedApplications(coupon, cart))

\* C2: calculateDiscount returns discount >= 0; for CART_WISE the discount
\* is at most the cart total; for PRODUCT_WISE it is at most the sum of the
\* subtotals of the items whose productId is in applicableProducts.
C2_DiscountBounds ==
    op = "calculateDiscount"
    => /\ ret.discount >= 0
       /\ coupon.type = "CART_WISE" => ret.discount <= CartSubtotal(cart)
       /\ coupon.type = "PRODUCT_WISE"
              => ret.discount <= MatchedSubtotal(coupon, cart)

\* C2 witness: a fixed amount larger than a matched item's price has been
\* clamped, the discount being the whole matched subtotal.
C2_Witness ==
    /\ op = "calculateDiscount"
    /\ coupon.type = "PRODUCT_WISE"
    /\ coupon.discountValue > FixedThreshold
    /\ ret.discount > 0
    /\ ret.discount = MatchedSubtotal(coupon, cart)
    /\ \E i \in MatchedIndexes(coupon, cart) :
           coupon.discountValue > cart.items[i].price

\* The per-item discount that discountType selects, before cap and clamp.
RawByDiscountType(c, item) ==
    IF c.discountType = "PERCENTAGE"
    THEN (item.price * item.quantity * c.discountValue) \div PercentBase
    ELSE c.discountValue * item.quantity

LabelByDiscountType(c) ==
    IF c.discountType = "PERCENTAGE" THEN "percentage" ELSE "fixed"

\* C3: for a PRODUCT_WISE coupon the per-item formula is selected by
\* discountType (price*quantity*discountValue/100 for PERCENTAGE,
\* discountValue*quantity for FIXED_AMOUNT, whatever discountValue is), and
\* the result's label follows discountType.
C3_FormulaByDiscountType ==
    (/\ op = "calculateDiscount"
     /\ coupon.type = "PRODUCT_WISE"
     /\ IsDefined(ret.itemDiscounts))
    => /\ ret.discountType = Some(LabelByDiscountType(coupon))
       /\ LET matched == SelectSeq(cart.items,
                             LAMBDA item : item.productId \in coupon.applicableProducts)
          IN  \A i \in DOMAIN matched :
                  ret.itemDiscounts[1][i].itemDiscount =
                      ClampToItemTotal(matched[i],
                          CapItemDiscount(coupon,
                              RawByDiscountType(coupon, matched[i])))

\* The cart-wise percentage of the cart total.
CartPercentage(c, crt) ==
    (CartSubtotal(crt) * c.discountValue) \div PercentBase

CappedPerItem(c, crt, cap) ==
    SumOver([i \in DOMAIN crt.items |->
                Min(Min(RawItemDiscount(c, crt.items[i]), cap),
                    crt.items[i].price * crt.items[i].quantity)],
            MatchedIndexes(c, crt))

\* C5 as stated: for an applicable PRODUCT_WISE coupon that has a
\* maxDiscount, the total discount is the sum over the matched items of
\* min(raw item discount, maxDiscount, item subtotal).
C5_CapWheneverSet ==
    (/\ op = "calculateDiscount"
     /\ coupon.type = "PRODUCT_WISE"
     /\ ret.applicable = Undefined
     /\ IsDefined(coupon.maxDiscount))
    => ret.discount = CappedPerItem(coupon, cart, coupon.maxDiscount[1])

\* C5, amended: for an applicable PRODUCT_WISE coupon whose maxDiscount is
\* set and not 0, the cap is applied to each matched item separately: the
\* total discount is the sum over the matched items of
\* min(raw item discount, maxDiscount, item subtotal).
C5_CapPerItem ==
    (/\ op = "calculateDiscount"
     /\ coupon.type = "PRODUCT_WISE"
     /\ ret.applicable = Undefined
     /\ IsDefined(coupon.maxDiscount)
     /\ coupon.maxDiscount[1] # 0)
    => ret.discount = CappedPerItem(coupon, cart, coupon.maxDiscount[1])

\* C5 witness: two matched items are each capped, the total being twice
\* maxDiscount.
C5_Witness ==
    /\ op = "calculateDiscount"
    /\ coupon.type = "PRODUCT_WISE"
    /\ ret.applicable = Undefined
    /\ IsDefined(coupon.maxDiscount)
    /\ coupon.maxDiscount[1] > 0
    /\ Cardinality(MatchedIndexes(coupon, cart)) = 2
    /\ ret.discount = 2 * coupon.maxDiscount[1]

\* The quantity of a product in the cart, over all its line items.
TotalQuantity(crt, id) ==
    SumOver([i \in DOMAIN crt.items |-> crt.items[i].quantity],
            {i \in DOMAIN crt.items : crt.items[i].productId = id})

\* The get requirements whose product has a line item in the cart.
PresentGets(c, crt) ==
    {i \in DOMAIN c.getProducts :
        \E k \in DOMAIN crt.items :
            crt.items[k].productId = c.getProducts[i].productId}

\* C6: for an applicable BXGY coupon with applications a, the discount is
\* the sum over the getProducts entries g that have a cart item of
\* min(g.quantity*a, cartItem.quantity)*cartItem.price, and the free units
\* of a product never exceed the quantity of that product in the cart.
C6_BxGyDiscount ==
    (/\ op = "calculateDiscount"
     /\ coupon.type = "BXGY"
     /\ IsDefined(ret.freeItems))
    => LET a == ret.maxApplications[1]
           item(i) == cart.items[FindIndex(cart.items,
                                           coupon.getProducts[i].productId)]
       IN  /\ ret.discount =
                  SumOver([i \in DOMAIN coupon.getProducts |->
                              Min(coupon.getProducts[i].quantity * a,
                                  item(i).quantity) * item(i).price],
                          PresentGets(coupon, cart))
           /\ \A i \in PresentGets(coupon, cart) :
                  ret.freeItems[1][i].freeQuantity
                      <= TotalQuantity(cart, coupon.getProducts[i].productId)

\* C6 witness: the free units are limited by the cart: quantity times
\* applications is more than the cart has, and the discount is positive.
C6_Witness ==
    /\ op = "calculateDiscount"
    /\ coupon.type = "BXGY"
    /\ IsDefined(ret.freeItems)
    /\ ret.discount > 0
    /\ \E i \in PresentGets(coupon, cart) :
           /\ coupon.getProducts[i].quantity * ret.maxApplications[1]
                  > TotalQuantity(cart, coupon.getProducts[i].productId)
           /\ ret.freeItems[1][i].freeQuantity
                  = TotalQuantity(cart, coupon.getProducts[i].productId)

\* Active, not past the expirationDate (if any), usage below the
\* usageLimit (if any).
ActiveUnexpiredUnderLimit ==
    /\ coupon.isActive
    /\ (~IsDefined(coupon.expirationDate) \/ now <= coupon.expirationDate[1])
    /\ (~IsDefined(coupon.usageLimit)
        \/ coupon.currentUsage < coupon.usageLimit[1])

\* C7: the coupon passes isApplicable if and only if it is active, has no
\* expirationDate or now <= expirationDate, and has no usageLimit or
\* currentUsage < usageLimit; it fails at currentUsage = usageLimit and
\* passes at now = expirationDate.
C7_IsApplicable ==
    op = "isCouponApplicable"
    => ((ret.reason # NotApplicableReason) <=> ActiveUnexpiredUnderLimit)

\* C7 witness: a coupon evaluated exactly at its expirationDate has passed
\* isApplicable.
C7_Witness ==
    /\ op = "isCouponApplicable"
    /\ IsDefined(coupon.expirationDate)
    /\ now = coupon.expirationDate[1]
    /\ IsDefined(coupon.usageLimit)
    /\ ret.reason # NotApplicableReason

MinimumReason(cartTotal, minCartValue) ==
    <<"Cart total (", cartTotal, ") is less than minimum required (",
      minCartValue, ")">>

C9_ThrowsIffZeroDiscount ==
    op = "applyCouponToCart"
    => LET result == calculateDiscount(coupon, cart, now)
       IN  /\ ret.threw <=> result.discount = 0
           /\ ret.threw
                  => ret.message =
                         <<"Cannot apply coupon: ">>
                         \o (IF IsDefined(result.reason) THEN result.reason
                             ELSE <<"Invalid coupon">>)
           /\ result.discount > 0
                  => ~ret.threw /\ IsDefined(ret.updatedCart)

\* C9 witness: an applicable BXGY coupon whose get products are not in the
\* cart gives discount 0 without a reason, and the call has thrown.
C9_Witness ==
    /\ op = "applyCouponToCart"
    /\ ret.threw
    /\ coupon.type = "BXGY"
    /\ isCouponApplicable(coupon, cart, now).applicable

\* C10: a successful applyCouponToCart returns an updatedCart with
\* totalPrice = the cart total of the input cart, totalDiscount = the
\* discount of calculateDiscount, finalPrice = totalPrice - totalDiscount.
C10_UpdatedCartTotals ==
    (op = "applyCouponToCart" /\ ~ret.threw)
    => LET updatedCart == ret.updatedCart[1]
       IN  /\ updatedCart.totalPrice = CartSubtotal(cart)
           /\ updatedCart.totalDiscount
                  = calculateDiscount(coupon, cart, now).discount
           /\ updatedCart.finalPrice
                  = updatedCart.totalPrice - updatedCart.totalDiscount

\* C10 witness: a cart-wise coupon with an unengaged cap has been applied:
\* the final price is the total less the percentage.
C10_Witness ==
    /\ op = "applyCouponToCart"
    /\ ~ret.threw
    /\ coupon.type = "CART_WISE"
    /\ IsDefined(coupon.maxDiscount)
    /\ ret.updatedCart[1].totalDiscount = CartPercentage(coupon, cart)
    /\ ret.updatedCart[1].totalDiscount < coupon.maxDiscount[1]
    /\ ret.updatedCart[1].finalPrice
           = CartSubtotal(cart) - CartPercentage(coupon, cart)

\* C11: on every successful application, for a coupon of any type and any
\* discountValue and maxDiscount, the updated cart's finalPrice is at
\* least 0.
C11_FinalPriceNonNegative ==
    (op = "applyCouponToCart" /\ ~ret.threw)
    => ret.updatedCart[1].finalPrice >= 0

\* C11 witness: an application whose discount is the whole cart total, so
\* that the final price is exactly 0.
C11_Witness ==
    /\ op = "applyCouponToCart"
    /\ ~ret.threw
    /\ ret.updatedCart[1].totalPrice > 0
    /\ ret.updatedCart[1].finalPrice = 0

RECURSIVE ItemsAt(_, _, _)
ItemsAt(items, S, i) ==
    IF i > Len(items) THEN <<>>
    ELSE (IF i \in S THEN <<items[i]>> ELSE <<>>) \o ItemsAt(items, S, i + 1)

\* The cart total is not below a minimum that is set.
MeetsMinimum ==
    coupon.minCartValue = 0 \/ CartSubtotal(cart) >= coupon.minCartValue

\* C14: a PRODUCT_WISE coupon that passes the activity and minimum cart
\* value checks is applicable if and only if at least one cart item's
\* productId is in applicableProducts; the result then has the matching
\* items, in cart order, and the sum of their subtotals; an empty
\* applicableProducts is reported with another reason than a cart that
\* has none of the products.
C14_ProductWiseApplicability ==
    (/\ op = "isCouponApplicable"
     /\ coupon.type = "PRODUCT_WISE"
     /\ ActiveUnexpiredUnderLimit
     /\ MeetsMinimum)
    => LET matched == MatchedIndexes(coupon, cart)
       IN  /\ ret.applicable <=> matched # {}
           /\ matched # {} =>
                  /\ ret.applicableItems = Some(ItemsAt(cart.items, matched, 1))
                  /\ ret.applicableTotal = Some(MatchedSubtotal(coupon, cart))
                  /\ ret.reason = Undefined
           /\ matched = {} =>
                  ret.reason = IF coupon.applicableProducts = {}
                               THEN <<"No applicable products defined">>
                               ELSE <<"No applicable products in cart">>

\* C14 witness: an applicable PRODUCT_WISE coupon that matches one of the
\* cart's two line items and not the other.
C14_Witness ==
    /\ op = "isCouponApplicable"
    /\ coupon.type = "PRODUCT_WISE"
    /\ ret.applicable
    /\ Len(cart.items) = 2
    /\ Cardinality(MatchedIndexes(coupon, cart)) = 1

\* The indexes of the get requirements whose product is not in the cart.
AbsentGets(c, crt) == DOMAIN c.getProducts \ PresentGets(c, crt)

\* The entries of freeItems for the absent get products are as reported:
\* nothing off, quantity * applications free units, and the note.
AbsentGetsReported(result) ==
    \A i \in AbsentGets(coupon, cart) :
        result.freeItems[1][i] =
            [productId |-> coupon.getProducts[i].productId,
             freeQuantity |-> coupon.getProducts[i].quantity
                                  * result.maxApplications[1],
             itemDiscount |-> 0,
             note |-> <<"Item not in cart">>]

\* C15: a BXGY get product that is not in the cart contributes 0 and is
\* reported with freeQuantity = quantity * applications and the note
\* 'Item not in cart'; applyCouponToCart never adds a line item: the
\* updated cart's items have the productIds, quantities and prices of the
\* input cart's items, in the same order.
C15_AbsentGetProduct ==
    /\ (/\ op = "calculateDiscount"
        /\ coupon.type = "BXGY"
        /\ IsDefined(ret.freeItems))
       => AbsentGetsReported(ret)
    /\ (op = "applyCouponToCart" /\ ~ret.threw)
       => /\ coupon.type = "BXGY" => AbsentGetsReported(ret.discountResult[1])
          /\ Len(ret.updatedCart[1].items) = Len(cart.items)
          /\ \A i \in DOMAIN cart.items :
                 /\ ret.updatedCart[1].items[i].productId
                        = cart.items[i].productId
                 /\ ret.updatedCart[1].items[i].quantity
                        = cart.items[i].quantity
                 /\ ret.updatedCart[1].items[i].price = cart.items[i].price

\* C15 witness: a BXGY coupon has been applied to a cart that has one of
\* its get products and not the other.
C15_Witness ==
    /\ op = "applyCouponToCart"
    /\ ~ret.threw
    /\ coupon.type = "BXGY"
    /\ AbsentGets(coupon, cart) # {}
    /\ PresentGets(coupon, cart) # {}

\* C17: whenever isCouponApplicable reports the coupon inapplicable for a
\* cart, calculateDiscount returns discount 0 with the same reason and
\* applyCouponToCart throws.
C17_InapplicableZeroAndThrows ==
    LET applicability == isCouponApplicable(coupon, cart, now)
    IN  (~IsDefined(applicability.raised) /\ ~applicability.applicable)
        => /\ op = "calculateDiscount" =>
                  /\ ret.discount = 0
                  /\ IsDefined(ret.reason)
                  /\ ret.reason = applicability.reason
           /\ op = "applyCouponToCart" =>
                  /\ ret.threw
                  /\ ret.message
                         = <<"Cannot apply coupon: ">> \o applicability.reason

\* C17 witness: applyCouponToCart has thrown for a PRODUCT_WISE coupon that
\* isCouponApplicable reports inapplicable because the cart has none of
\* its products.
C17_Witness ==
    /\ op = "applyCouponToCart"
    /\ ret.threw
    /\ isCouponApplicable(coupon, cart, now).reason
           = <<"No applicable products in cart">>

\* C16: isCouponApplicable and calculateDiscount never raise: for a
\* coupon of any type, a cart that is absent or has no items list is
\* taken as a cart of total 0 and gives applicable = false, and discount 0,
\* with a reason; a coupon without product lists is reported inapplicable
\* and does not raise either.
C16_NeverRaises ==
    cart \in MalformedCarts
    => /\ op = "isCouponApplicable" =>
              /\ ret.raised = Undefined
              /\ ~ret.applicable
              /\ IsDefined(ret.reason)
       /\ op = "calculateDiscount" =>
              /\ ret.raised = Undefined
              /\ ret.discount = 0
              /\ IsDefined(ret.reason)

\* The stored coupons that getApplicableCoupons is given, with the
\* discount calculated for each, in the collection's order.
Supplied(t, later) ==
    LET coupons == Find(store, t)
    IN  [i \in DOMAIN coupons |->
            [couponId |-> coupons[i].id,
             discount |-> calculateDiscount(coupons[i], cart, later).discount]]

\* C13: getApplicableCoupons returns exactly the supplied coupons whose
\* calculated discount is above 0, each once, ordered by discount
\* descending; coupons of equal discount keep the order they had in the
\* supplied collection.
C13_ListingOrder ==
    op = "getApplicableCoupons"
    => \E t \in 0..now :
          LET supplied == Supplied(t, now)
              place(id) == CHOOSE i \in DOMAIN supplied :
                               supplied[i].couponId = id
          IN  /\ {ret[k].couponId : k \in DOMAIN ret}
                     = {supplied[i].couponId :
                           i \in {j \in DOMAIN supplied : supplied[j].discount > 0}}
              /\ \A k, l \in DOMAIN ret :
                     ret[k].couponId = ret[l].couponId => k = l
              /\ \A k \in DOMAIN ret :
                     ret[k].discount = supplied[place(ret[k].couponId)].discount
              /\ \A k, l \in DOMAIN ret :
                     k < l =>
                        \/ ret[k].discount > ret[l].discount
                        \/ /\ ret[k].discount = ret[l].discount
                           /\ place(ret[k].couponId) < place(ret[l].couponId)

\* C13 witness: a listing of three coupons in which two coupons have the
\* same discount and a coupon with a larger discount, supplied after them,
\* comes first.
C13_Witness ==
    /\ op = "getApplicableCoupons"
    /\ Len(ret) = 3
    /\ ret[1].discount > ret[2].discount
    /\ ret[2].discount = ret[3].discount
    /\ ret[1].couponId > ret[2].couponId
    /\ ret[2].couponId < ret[3].couponId

\* Request r finishes with the answer of a successful application in
\* this step.
Succeeds(r) == reqs[r].pc = "save" /\ reqs'[r].pc = "done"

\* C19: a stored coupon's currentUsage is incremented by exactly 1 when,
\* and only when, applyCouponToCart has succeeded for a request: the step
\* that completes a successful request adds 1 to the stored currentUsage
\* of its coupon, and no other step (a failed application, a missing
\* coupon, an invalid cart) changes any field of any stored coupon.
C19_IncrementOnlyAfterSuccess ==
    [][/\ \A r \in Requests :
              Succeeds(r) =>
                  store'[reqs[r].id].currentUsage
                      = store[reqs[r].id].currentUsage + 1
       /\ \A i \in DOMAIN store :
              store'[i] # store[i] =>
                  /\ \E r \in Requests : Succeeds(r) /\ reqs[r].id = i
                  /\ store'[i] = [store[i] EXCEPT !.currentUsage = @ + 1]]_vars

\* The requests answered with the result of an application to coupon i.
Succeeded(i) ==
    {r \in Requests :
        reqs[r].pc = "done" /\ reqs[r].status = 200 /\ reqs[r].id = i}

\* C20: the increments of currentUsage are atomic per coupon: in every
\* interleaving of concurrent applyCoupon requests, once N of them have
\* succeeded for a coupon, its stored currentUsage has grown by exactly N
\* (from 0, the value every stored coupon starts with).
C20_AtomicIncrements ==
    \A i \in DOMAIN store :
        store[i].currentUsage = Cardinality(Succeeded(i))

\* C21: for a coupon with usageLimit L, in every interleaving of
\* concurrent applyCoupon requests, the number of requests that succeed
\* for it never exceeds L, and its stored currentUsage never exceeds L.
C21_UsageLimitRespected ==
    \A i \in DOMAIN store :
        IsDefined(store[i].usageLimit) =>
            /\ Cardinality(Succeeded(i)) <= store[i].usageLimit[1]
            /\ store[i].currentUsage <= store[i].usageLimit[1]

\* C24: in the cart returned by applyCouponToCart for a PRODUCT_WISE or
\* BXGY coupon, every annotated line item has a totalDiscount of at most
\* its own price * quantity, so that its discountedPrice is at least 0;
\* this for every valid cart, carts with several line items of one
\* productId included.
C24_ItemDiscountWithinSubtotal ==
    (/\ op = "applyCouponToCart"
     /\ ~ret.threw
     /\ coupon.type \in {"PRODUCT_WISE", "BXGY"})
    => \A i \in DOMAIN ret.updatedCart[1].items :
           LET item == ret.updatedCart[1].items[i]
           IN  IsDefined(item.totalDiscount) =>
                   /\ item.totalDiscount[1] <= item.price * item.quantity
                   /\ item.discountedPrice[1] >= 0

\* C25: the cart quantity used for a BXGY buy requirement is the total
\* quantity of the productId in the cart, summed over the line items that
\* have it: the product -> quantity map of the result says so, and for a
\* coupon with one buy requirement the applications are
\* min(repetitionLimit, floor(total quantity / required quantity)).
C25_CartQuantityIsTotal ==
    (/\ op = "isCouponApplicable"
     /\ coupon.type = "BXGY"
     /\ ActiveUnexpiredUnderLimit
     /\ MeetsMinimum)
    => /\ IsDefined(ret.cartProducts) =>
              \A p \in DOMAIN ret.cartProducts[1] :
                  ret.cartProducts[1][p] = TotalQuantity(cart, p)
       /\ Len(coupon.buyProducts) = 1 =>
              LET buy == coupon.buyProducts[1]
                  a == Min(coupon.repetitionLimit,
                           TotalQuantity(cart, buy.productId) \div buy.quantity)
              IN  /\ ret.applicable <=> a > 0
                  /\ ret.applicable => ret.maxApplications = Some(a)

\* C26: listing and applying agree: when getApplicableCoupons runs at one
\* instant, a stored coupon is in its result if and only if
\* applyCouponToCart succeeds for that coupon and cart at that instant,
\* the instant of the coupon's expirationDate included.
C26_ListingAgreesWithApplying ==
    [][(op' = "getApplicableCoupons" /\ now' = now)
       => \A i \in DOMAIN store :
              (\E k \in DOMAIN ret' : ret'[k].couponId = store[i].id)
              <=> ~applyCouponToCart(store[i], cart, now).threw]_vars

\* The variant invariants of a stored coupon.
VariantInvariant(c) ==
    CASE c.type = "CART_WISE" ->
             /\ c.applicableProducts = {}
             /\ c.buyProducts = <<>> /\ c.getProducts = <<>>
             /\ c.discountValue >= 1 /\ c.discountValue <= 100
      [] c.type = "PRODUCT_WISE" ->
             /\ c.applicableProducts # {}
             /\ c.buyProducts = <<>> /\ c.getProducts = <<>>
      [] c.type = "BXGY" ->
             /\ c.buyProducts # <<>> /\ c.getProducts # <<>>
             /\ Cardinality(ReqIds(c.buyProducts)) = Len(c.buyProducts)
             /\ Cardinality(ReqIds(c.getProducts)) = Len(c.getProducts)
             /\ ReqIds(c.buyProducts) \cap ReqIds(c.getProducts) = {}
      [] OTHER -> FALSE

\* C22: after any sequence of createCoupon and updateCoupon requests that
\* pass validation, every stored coupon satisfies the invariants of its
\* type: CART_WISE no product lists and discountValue in 1..100,
\* PRODUCT_WISE non-empty applicableProducts and no buy/get lists, BXGY
\* non-empty buy and get lists, ids unique in each, no product in both.
C22_VariantInvariants ==
    \A i \in DOMAIN store : VariantInvariant(store[i])

\* Handler r takes a step.
Steps(r) == reqs'[r] # reqs[r]

\* Handler r ends in this step with a 400 and the store is as it was.
Rejected(r) ==
    /\ reqs'[r].pc = "done"
    /\ reqs'[r].status = 400
    /\ store' = store

\* C23: in every sequence and interleaving of createCoupon, updateCoupon
\* and deleteCoupon requests, no two stored coupons have the same code,
\* and a create or update that would give a coupon the code of another
\* stored coupon is rejected with status 400 and leaves the store as it
\* was.
C23_UniqueCodes ==
    [][/\ \A i, j \in DOMAIN store' :
              store'[i].code = store'[j].code => i = j
       /\ \A r \in Handlers :
              /\ (/\ reqs[r].pc \in {"create_find", "create_save"}
                  /\ Steps(r)
                  /\ FindOne(store, reqs[r].body.code) # Undefined)
                 => Rejected(r)
              /\ (/\ reqs[r].pc \in {"update_duplicate", "update_save"}
                  /\ Steps(r)
                  /\ "code" \in DOMAIN reqs[r].body
                  /\ DuplicateKey(store, reqs[r].doc.id, reqs[r].body.code))
                 => Rejected(r)]_vars

\* C27: whenever no stored coupon has code c (after a deleteCoupon for c
\* as before any createCoupon for c), getCouponById(c), updateCoupon(c)
\* and deleteCoupon(c) each answer 404 when they look c up.
C27_NotFound ==
    [][\A r \in Handlers :
           (/\ reqs[r].pc \in {"get_find", "update_find", "delete_find"}
            /\ Steps(r)
            /\ FindOne(store, reqs[r].param) = Undefined)
           => (reqs'[r].pc = "done" /\ reqs'[r].status = 404)]_vars

====
